---- MODULE Spec2Model ----
(***************************************************************************)
(* Model of openfold/features/data_pipeline.py: make_msa_features,         *)
(* AlignmentRunner.run, DataPipeline._parse_alignment_output,              *)
(* DataPipeline.process_fasta and DataPipeline.process_mmcif.              *)
(*                                                                         *)
(* A Python string is a tuple of one-character strings, a list is a tuple, *)
(* a dict is a function on its key set.  A call's outcome is a record      *)
(* [status |-> "return", ...] or [status |-> "raise", type, msg].          *)
(***************************************************************************)
EXTENDS Integers, Sequences, FiniteSets, TLC

VARIABLES
    msas,               \* make_msa_features: argument of the latest call
    deletion_matrices,  \* make_msa_features: argument of the latest call
    seen_sequences,     \* make_msa_features: latest binding of the local set
    msa_result,         \* make_msa_features: outcome of the latest call
    prev_call,          \* the call before the latest one (arguments, outcome)
    runner_use_small_bfd,   \* AlignmentRunner._use_small_bfd
    pipeline_use_small_bfd, \* DataPipeline.use_small_bfd
    output_files,       \* the alignment directory: file name -> content
    run_pc,             \* AlignmentRunner.run: the stage it is at
    run_output_dir,     \* AlignmentRunner.run: its output_dir argument
    uniref90_msa_as_a3m,    \* AlignmentRunner.run: local of that name
    run_events,         \* AlignmentRunner.run: tool queries and file writes so far
    run_error,          \* AlignmentRunner.run: the exception that ended it
    started_empty,      \* whether the directory was empty when run started
    load_result,        \* _parse_alignment_output: outcome of the latest call
    load_reads,         \* _parse_alignment_output: files opened by the latest call
    load_before,        \* the directory as it was when the latest load began
    fasta_result,       \* process_fasta: outcome of the latest call
    mmcif_result        \* process_mmcif: outcome of the latest call

msa_vars == <<msas, deletion_matrices, seen_sequences, msa_result, prev_call>>
align_vars == <<runner_use_small_bfd, pipeline_use_small_bfd, output_files, run_pc,
                run_output_dir, uniref90_msa_as_a3m, run_events, run_error,
                started_empty, load_result, load_reads, load_before>>

pipe_vars == <<fasta_result, mmcif_result>>

vars == <<msa_vars, align_vars, pipe_vars>>

None == "None"
NoError == [status |-> "no error"]
NoCall == [status |-> "no call"]
NotCalled == [status |-> "not called"]

Raise(type, msg) == [status |-> "raise", type |-> type, msg |-> msg]

\* np.array(value, dtype=...): the fields compare in the order dtype, ndim,
\* value, so arrays of different kinds compare unequal.
NpArray(dtype, ndim, value) == [dtype |-> dtype, ndim |-> ndim, value |-> value]

----------------------------------------------------------------------------
(* Bounds and input pools                                                  *)

MaxMsas == 2
MaxRows == 2
MaxTotalRows == 4

\* Sequence strings offered to make_msa_features: AB encodes to the same ids
\* as AD; A? holds a symbol outside the mapping; A has another width.
RowPool ==
    { <<"A", "D">>, <<"A", "B">>, <<"C", "-">>, <<"A", "?">>, <<"A">> }

SeqsUpTo(S, n) == UNION { [1..k -> S] : k \in 0..n }

\* The row counts of the MSAs of a list: at most MaxMsas MSAs of at most
\* MaxRows rows, holding at most MaxTotalRows rows together.
RECURSIVE RowsBefore(_, _)
RowsBefore(shape, i) == IF i = 1 THEN 0 ELSE RowsBefore(shape, i - 1) + shape[i - 1]
TotalOf(shape) == RowsBefore(shape, Len(shape) + 1)
Shapes == { shape \in SeqsUpTo(0..MaxRows, MaxMsas) : TotalOf(shape) <= MaxTotalRows }

\* The list of MSAs that holds the rows of flat, in order, cut as shape says.
Split(flat, shape) ==
    [i \in 1..Len(shape) |-> [j \in 1..shape[i] |-> flat[RowsBefore(shape, i) + j]]]

\* The deletion matrices offered with a list of MSAs: one row per MSA row, of
\* the row's width, holding a count that tells the rows of the list apart.
DeletionsOf(m) ==
    [i \in 1..Len(m) |-> [j \in 1..Len(m[i]) |-> [k \in 1..Len(m[i][j]) |-> 10 * i + j]]]

----------------------------------------------------------------------------
(* make_msa_features                                                       *)

\* residue_constants.HHBLITS_AA_TO_ID restricted to the symbols of RowPool.
HHBLITS_AA_TO_ID ==
    [res \in {"A", "B", "C", "D", "X", "-"} |->
        CASE res = "A" -> 0
          [] res = "B" -> 2
          [] res = "C" -> 1
          [] res = "D" -> 2
          [] res = "X" -> 20
          [] res = "-" -> 21]

\* [HHBLITS_AA_TO_ID[res] for res in sequence]; a missing key raises KeyError.
EncodeOk(sequence) == \A k \in 1..Len(sequence) : sequence[k] \in DOMAIN HHBLITS_AA_TO_ID
Encode(sequence) == [k \in 1..Len(sequence) |-> HHBLITS_AA_TO_ID[sequence[k]]]

\* seen_sequences = set(): the set a call starts from, whatever an earlier
\* call left behind.
InitialSeenLeaky(left_over) == left_over
InitialSeen(left_over) == {}

\* The condition under which a row is skipped.
IsDuplicateNever(sequence, seen) == FALSE
IsDuplicate(sequence, seen) == sequence \in seen

\* The deletion row appended for the kept row (msa_index, sequence_index).
DeletionRowFirst(dms, msa_index, sequence_index) == dms[msa_index][1]
DeletionRow(dms, msa_index, sequence_index) == dms[msa_index][sequence_index]

\* enumerate(msas): the position reported for the MSA the loop is at (the
\* model's tuples are 1-based, Python's lists 0-based).
MsaPositionOneBased(i) == i
MsaPosition(i) == i - 1

\* The two nested for-loops, from position (i, j) on (1-based), with the
\* accumulators int_msa, deletion_matrix and seen_sequences in acc.
RECURSIVE MsaLoop(_, _, _, _, _)
MsaLoop(m, dms, i, j, acc) ==
    IF i > Len(m) THEN acc
    ELSE IF j = 1 /\ Len(m[i]) = 0 THEN
        [acc EXCEPT !.err = Raise("ValueError", <<"MSA must contain at least one sequence", MsaPosition(i)>>)]
    ELSE IF j > Len(m[i]) THEN MsaLoop(m, dms, i + 1, 1, acc)
    ELSE LET sequence == m[i][j] IN
        IF IsDuplicate(sequence, acc.seen) THEN MsaLoop(m, dms, i, j + 1, acc)
        ELSE IF ~EncodeOk(sequence) THEN
            [acc EXCEPT !.seen = @ \cup {sequence},
                        !.err = Raise("KeyError", <<"HHBLITS_AA_TO_ID", MsaPosition(i)>>)]
        ELSE MsaLoop(m, dms, i, j + 1,
                [acc EXCEPT !.seen = @ \cup {sequence},
                            !.int_msa = Append(@, Encode(sequence)),
                            !.deletion_matrix = Append(@, DeletionRow(dms, i, j))])

\* np.array(rows, dtype=np.int32) needs rows of one length.
Rectangular(rows) == \A a, b \in 1..Len(rows) : Len(rows[a]) = Len(rows[b])

\* The width num_alignments is broadcast over.
NumRes(m) == Len(m[1][1])

\* The whole function: outcome and the final binding of seen_sequences.
MakeMsaFeaturesRun(m, dms, left_over) ==
    IF Len(m) = 0 THEN
        [outcome |-> Raise("ValueError", <<"At least one MSA must be provided", -1>>),
         seen |-> left_over]
    ELSE
    LET acc == MsaLoop(m, dms, 1, 1,
                   [int_msa |-> <<>>, deletion_matrix |-> <<>>,
                    seen |-> InitialSeen(left_over), err |-> NoError])
        num_res == NumRes(m)
        num_alignments == Len(acc.int_msa)
    IN  IF acc.err # NoError THEN [outcome |-> acc.err, seen |-> acc.seen]
        ELSE IF ~Rectangular(acc.deletion_matrix) \/ ~Rectangular(acc.int_msa) THEN
            [outcome |-> Raise("ValueError", <<"inhomogeneous shape", -1>>),
             seen |-> acc.seen]
        ELSE
            [outcome |->
                [status |-> "return",
                 features |->
                    [deletion_matrix_int |-> NpArray("int32", 2, acc.deletion_matrix),
                     msa |-> NpArray("int32", 2, acc.int_msa),
                     num_alignments |->
                        NpArray("int32", 1, [k \in 1..num_res |-> num_alignments])]],
             seen |-> acc.seen]

make_msa_features(m, dms) == MakeMsaFeaturesRun(m, dms, {}).outcome

----------------------------------------------------------------------------
(* The alignment directory and the external tools                          *)

uniref_max_hits == 2
mgnify_max_hits == 1

FileNames == {"uniref90_hits.a3m", "mgnify_hits.a3m", "pdb70_hits.hhr",
              "small_bfd_hits.sto", "bfd_uniclust_hits.a3m"}
Absent == [kind |-> "absent"]
EmptyDir == [f \in FileNames |-> Absent]
FastaPath == "query.fasta"
OutputDir == "alignments"

\* Stockholm alignments a jackhmmer query may return (row 1 is the query).
Sto1 == << <<"A", "-", "D">>, <<"A", "B", "D">>, <<"-", "B", "D">> >>
Sto2 == << <<"A", "D">>, <<"C", "D">> >>
StoPool == {Sto1, Sto2}

\* a3m alignments an hhblits query may return.
A3m1 == << <<"A", "D">>, <<"A", "c", "D">> >>
A3mPool == {A3m1}

IsLower(c) == c \in {"a", "b", "c", "d"}
Lower(c) == CASE c = "A" -> "a" [] c = "B" -> "b" [] c = "C" -> "c"
              [] c = "D" -> "d" [] OTHER -> c

\* parsers.convert_stockholm_to_a3m: at most max_sequences rows; in a column
\* where the query has a gap, a residue becomes lower case and a gap is
\* dropped.
RECURSIVE A3mRow(_, _, _)
A3mRow(query, row, k) ==
    IF k > Len(row) THEN <<>>
    ELSE (IF query[k] = "-"
             THEN (IF row[k] = "-" THEN <<>> ELSE <<Lower(row[k])>>)
             ELSE <<row[k]>>) \o A3mRow(query, row, k + 1)

convert_stockholm_to_a3m(sto, max_sequences) ==
    LET n == IF Len(sto) < max_sequences THEN Len(sto) ELSE max_sequences IN
    [r \in 1..n |-> A3mRow(sto[1], sto[r], 1)]

\* parsers.parse_a3m: the aligned rows without their lower-case insertions,
\* and per aligned column the number of insertions before it.
RECURSIVE A3mDeletions(_, _, _)
A3mDeletions(row, k, count) ==
    IF k > Len(row) THEN <<>>
    ELSE IF IsLower(row[k]) THEN A3mDeletions(row, k + 1, count + 1)
    ELSE <<count>> \o A3mDeletions(row, k + 1, 0)

parse_a3m(a3m) ==
    [msa |-> [r \in 1..Len(a3m) |-> SelectSeq(a3m[r], LAMBDA c : ~IsLower(c))],
     deletion_matrix |-> [r \in 1..Len(a3m) |-> A3mDeletions(a3m[r], 1, 0)]]

\* parsers.parse_stockholm: the columns where the query has a residue, and
\* per kept column the number of residues in the dropped columns before it.
\* A row is read as far as the query reaches.
RECURSIVE StoAligned(_, _, _)
StoAligned(query, row, k) ==
    IF k > Len(row) \/ k > Len(query) THEN <<>>
    ELSE (IF query[k] = "-" THEN <<>> ELSE <<row[k]>>) \o StoAligned(query, row, k + 1)

RECURSIVE StoDeletions(_, _, _, _)
StoDeletions(query, row, k, count) ==
    IF k > Len(row) \/ k > Len(query) THEN <<>>
    ELSE IF query[k] = "-"
         THEN StoDeletions(query, row, k + 1, IF row[k] = "-" THEN count ELSE count + 1)
         ELSE <<count>> \o StoDeletions(query, row, k + 1, 0)

parse_stockholm(sto) ==
    [msa |-> [r \in 1..Len(sto) |-> StoAligned(sto[1], sto[r], 1)],
     deletion_matrix |-> [r \in 1..Len(sto) |-> StoDeletions(sto[1], sto[r], 1, 0)]]

\* hhsearch: the hit report for the a3m it was given; parsers.parse_hhr turns
\* a report into its hit records.
HhrFor(a3m) == [kind |-> "hhr", hits_for |-> a3m]
parse_hhr(hhr) == <<[hit_of |-> hhr.hits_for]>>

A3mFile(a3m) == [kind |-> "a3m", rows |-> a3m]
StoFile(sto) == [kind |-> "sto", rows |-> sto]

----------------------------------------------------------------------------
(* AlignmentRunner.run                                                     *)

Query(tool, input) == [kind |-> "query", tool |-> tool, input |-> input]
QueryPath == [path |-> FastaPath]
Write(file, content) == [kind |-> "write", file |-> file, content |-> content]

RunActive == run_pc \in {"mgnify", "pdb70", "bfd"}

\* The file the last stage writes.
BfdOutNameSwapped(use_small_bfd) ==
    IF use_small_bfd THEN "bfd_uniclust_hits.a3m" ELSE "small_bfd_hits.sto"
BfdOutName(use_small_bfd) ==
    IF use_small_bfd THEN "small_bfd_hits.sto" ELSE "bfd_uniclust_hits.a3m"

\* The alignment the template search is run on.
HhsearchInput(a3m) == [a3m |-> a3m]

\* The stage after a stage whose tool raised.
AfterFailureContinue(next_stage) == next_stage
AfterFailure(next_stage) == "failed"

AlignIdle ==
    /\ output_files = EmptyDir
    /\ run_pc = "idle"
    /\ run_output_dir = None
    /\ uniref90_msa_as_a3m = <<>>
    /\ run_events = <<>>
    /\ run_error = NoError
    /\ started_empty = FALSE
    /\ load_result = NotCalled
    /\ load_reads = <<>>
    /\ load_before = EmptyDir
    /\ fasta_result = NotCalled
    /\ mmcif_result = NotCalled

\* A tool query raised: run ends with that exception.
ToolFails(tool, input, next_stage) ==
    /\ run_events' = Append(run_events, Query(tool, input))
    /\ run_pc' = AfterFailure(next_stage)
    /\ run_error' = Raise("RuntimeError", <<tool>>)
    /\ UNCHANGED output_files

\* os.path.join(output_dir, name) followed by open(..., 'w') and write.
Persist(tool, input, name, content, next_stage) ==
    IF run_output_dir = None THEN
        /\ run_events' = Append(run_events, Query(tool, input))
        /\ run_pc' = "failed"
        /\ run_error' = Raise("TypeError", <<"os.path.join">>)
        /\ UNCHANGED output_files
    ELSE
        /\ run_events' = Append(Append(run_events, Query(tool, input)),
                                Write(name, content))
        /\ output_files' = [output_files EXCEPT ![name] = content]
        /\ run_pc' = next_stage
        /\ run_error' = NoError

LoadVars == <<pipeline_use_small_bfd, load_result, load_reads, load_before>>

\* run() is entered and runs its first stage: jackhmmer on uniref90.
RunUniref90(output_dir) ==
    /\ ~RunActive
    /\ run_output_dir' = output_dir
    /\ started_empty' = (output_files = EmptyDir)
    /\ \/ /\ run_events' = <<Query("jackhmmer_uniref90", QueryPath)>>
          /\ run_pc' = AfterFailure("mgnify")
          /\ run_error' = Raise("RuntimeError", <<"jackhmmer_uniref90">>)
          /\ UNCHANGED <<output_files, uniref90_msa_as_a3m>>
       \/ \E sto \in StoPool :
            LET a3m == convert_stockholm_to_a3m(sto, uniref_max_hits) IN
            /\ uniref90_msa_as_a3m' = a3m
            /\ IF output_dir = None THEN
                  /\ run_events' = <<Query("jackhmmer_uniref90", QueryPath)>>
                  /\ run_pc' = "failed"
                  /\ run_error' = Raise("TypeError", <<"os.path.join">>)
                  /\ UNCHANGED output_files
               ELSE
                  /\ run_events' = <<Query("jackhmmer_uniref90", QueryPath),
                                     Write("uniref90_hits.a3m", A3mFile(a3m))>>
                  /\ output_files' = [output_files EXCEPT
                                         !["uniref90_hits.a3m"] = A3mFile(a3m)]
                  /\ run_pc' = "mgnify"
                  /\ run_error' = NoError
    /\ UNCHANGED <<runner_use_small_bfd, LoadVars, msa_vars, pipe_vars>>

RunMgnify ==
    /\ run_pc = "mgnify"
    /\ \/ ToolFails("jackhmmer_mgnify", QueryPath, "pdb70")
       \/ \E sto \in StoPool :
            Persist("jackhmmer_mgnify", QueryPath, "mgnify_hits.a3m",
                    A3mFile(convert_stockholm_to_a3m(sto, mgnify_max_hits)), "pdb70")
    /\ UNCHANGED <<runner_use_small_bfd, run_output_dir, uniref90_msa_as_a3m,
                   started_empty, LoadVars, msa_vars, pipe_vars>>

RunPdb70 ==
    /\ run_pc = "pdb70"
    /\ LET input == HhsearchInput(uniref90_msa_as_a3m) IN
       \/ ToolFails("hhsearch_pdb70", input, "bfd")
       \/ Persist("hhsearch_pdb70", input, "pdb70_hits.hhr", HhrFor(input), "bfd")
    /\ UNCHANGED <<runner_use_small_bfd, run_output_dir, uniref90_msa_as_a3m,
                   started_empty, LoadVars, msa_vars, pipe_vars>>

RunBfd ==
    /\ run_pc = "bfd"
    /\ IF runner_use_small_bfd THEN
          \/ ToolFails("jackhmmer_small_bfd", QueryPath, "done")
          \/ \E sto \in StoPool :
                Persist("jackhmmer_small_bfd", QueryPath,
                        BfdOutName(runner_use_small_bfd), StoFile(sto), "done")
       ELSE
          \/ ToolFails("hhblits_bfd_uniclust", QueryPath, "done")
          \/ \E a3m \in A3mPool :
                IF run_output_dir # None THEN
                    Persist("hhblits_bfd_uniclust", QueryPath,
                            BfdOutName(runner_use_small_bfd), A3mFile(a3m), "done")
                ELSE
                    /\ run_events' = Append(run_events,
                                            Query("hhblits_bfd_uniclust", QueryPath))
                    /\ run_pc' = "done"
                    /\ run_error' = NoError
                    /\ UNCHANGED output_files
    /\ UNCHANGED <<runner_use_small_bfd, run_output_dir, uniref90_msa_as_a3m,
                   started_empty, LoadVars, msa_vars, pipe_vars>>

----------------------------------------------------------------------------
(* DataPipeline._parse_alignment_output                                    *)

\* The file read for the third source.
BfdInNameSmallOnly(use_small_bfd) == "small_bfd_hits.sto"
BfdInName(use_small_bfd) ==
    IF use_small_bfd THEN "small_bfd_hits.sto" ELSE "bfd_uniclust_hits.a3m"

\* The files opened, in the order they are opened.
LoadOrder(use_small_bfd) ==
    <<"uniref90_hits.a3m", "mgnify_hits.a3m", "pdb70_hits.hhr", BfdInName(use_small_bfd)>>

\* The parse of the third source's file.
ParseBfd(use_small_bfd, content) ==
    IF use_small_bfd THEN parse_stockholm(content.rows) ELSE parse_a3m(content.rows)

\* The whole method on a directory: the files it opens and its outcome.
\* open(path, 'r') of an absent file raises FileNotFoundError.
ParseAlignmentOutput(files, use_small_bfd) ==
    LET order == LoadOrder(use_small_bfd)
        missing == { k \in 1..Len(order) : files[order[k]] = Absent }
    IN  IF missing # {} THEN
            LET k == CHOOSE x \in missing : \A y \in missing : x <= y IN
            [reads |-> SubSeq(order, 1, k),
             outcome |-> Raise("FileNotFoundError", <<order[k]>>)]
        ELSE
            LET uniref90 == parse_a3m(files["uniref90_hits.a3m"].rows)
                mgnify == parse_a3m(files["mgnify_hits.a3m"].rows)
                bfd == ParseBfd(use_small_bfd, files[order[4]])
            IN
            [reads |-> order,
             outcome |->
                [status |-> "return",
                 alignments |->
                    [uniref90_msa |-> uniref90.msa,
                     uniref90_deletion_matrix |-> uniref90.deletion_matrix,
                     mgnify_msa |-> mgnify.msa,
                     mgnify_deletion_matrix |-> mgnify.deletion_matrix,
                     hhsearch_hits |-> parse_hhr(files["pdb70_hits.hhr"]),
                     bfd_msa |-> bfd.msa,
                     bfd_deletion_matrix |-> bfd.deletion_matrix]]]

RunVars == <<runner_use_small_bfd, output_files, run_pc, run_output_dir,
             uniref90_msa_as_a3m, run_events, run_error, started_empty>>

Load ==
    /\ ~RunActive
    /\ LET r == ParseAlignmentOutput(output_files, pipeline_use_small_bfd) IN
       /\ load_result' = r.outcome
       /\ load_reads' = r.reads
    /\ load_before' = output_files
    /\ UNCHANGED <<pipeline_use_small_bfd, RunVars, msa_vars, pipe_vars>>

\* AlignmentRunner.__init__ and DataPipeline.__init__: the flag is fixed at
\* construction.
NewRunner(use_small_bfd) ==
    /\ ~RunActive
    /\ runner_use_small_bfd' = use_small_bfd
    /\ run_pc' = "idle"
    /\ run_output_dir' = None
    /\ uniref90_msa_as_a3m' = <<>>
    /\ run_events' = <<>>
    /\ run_error' = NoError
    /\ started_empty' = FALSE
    /\ UNCHANGED <<output_files, LoadVars, msa_vars, pipe_vars>>

NewPipeline(use_small_bfd) ==
    /\ ~RunActive
    /\ pipeline_use_small_bfd' = use_small_bfd
    /\ load_result' = NotCalled
    /\ load_reads' = <<>>
    /\ load_before' = output_files
    /\ UNCHANGED <<RunVars, msa_vars, pipe_vars>>

AlignInit ==
    /\ msas = <<>>
    /\ deletion_matrices = <<>>
    /\ seen_sequences = {}
    /\ msa_result = NotCalled
    /\ prev_call = NoCall
    /\ runner_use_small_bfd \in BOOLEAN
    /\ pipeline_use_small_bfd \in BOOLEAN
    /\ AlignIdle

AlignNext ==
    \/ \E output_dir \in {OutputDir, None} : RunUniref90(output_dir)
    \/ RunMgnify
    \/ RunPdb70
    \/ RunBfd
    \/ Load
    \/ \E b \in BOOLEAN : NewRunner(b)
    \/ \E b \in BOOLEAN : NewPipeline(b)

SpecAlign == AlignInit /\ [][AlignNext]_vars

----------------------------------------------------------------------------
(* DataPipeline.process_fasta and DataPipeline.process_mmcif               *)

\* {**a, **b}: the keys of both, b's value where both define a key.
Merge(a, b) ==
    [k \in DOMAIN a \cup DOMAIN b |-> IF k \in DOMAIN b THEN b[k] ELSE a[k]]

\* residue_constants.restype_order_with_x on the model's symbols; symbols
\* outside it map to X (map_unknown_to_x=True).
restype_order_with_x ==
    [res \in {"A", "D", "C", "X"} |->
        CASE res = "A" -> 0 [] res = "D" -> 3 [] res = "C" -> 4 [] res = "X" -> 20]
RestypeNum == restype_order_with_x["X"] + 1
sequence_to_onehot(sequence) ==
    [r \in 1..Len(sequence) |->
        LET id == IF sequence[r] \in DOMAIN restype_order_with_x
                  THEN restype_order_with_x[sequence[r]]
                  ELSE restype_order_with_x["X"]
        IN  [c \in 1..RestypeNum |-> IF c = id + 1 THEN 1 ELSE 0]]

make_sequence_features(sequence, description, num_res) ==
    [aatype |-> NpArray("int32", 2, sequence_to_onehot(sequence)),
     between_segment_residues |-> NpArray("int32", 1, [k \in 1..num_res |-> 0]),
     domain_name |-> NpArray("object", 1, <<description>>),
     residue_index |-> NpArray("int32", 1, [k \in 1..num_res |-> k - 1]),
     seq_length |-> NpArray("int32", 1, [k \in 1..num_res |-> num_res]),
     sequence |-> NpArray("object", 1, <<sequence>>)]

\* mmcif_parsing.get_atom_coords: positions and mask of the chain's residues.
get_atom_coords(mmcif_object, chain_id) ==
    [all_atom_positions |->
        NpArray("float32", 2,
                [k \in 1..Len(mmcif_object.chain_to_seqres[chain_id]) |-> <<k, 0, 0>>]),
     all_atom_mask |->
        NpArray("float32", 1,
                [k \in 1..Len(mmcif_object.chain_to_seqres[chain_id]) |-> 1])]

\* make_mmcif_features; chain_to_seqres[chain_id] raises KeyError for a chain
\* the object has no sequence for.
MmcifFeaturesOk(mmcif_object, chain_id) == chain_id \in DOMAIN mmcif_object.chain_to_seqres
make_mmcif_features(mmcif_object, chain_id) ==
    LET input_sequence == mmcif_object.chain_to_seqres[chain_id]
        description == <<mmcif_object.file_id, "_", chain_id>>
        coords == get_atom_coords(mmcif_object, chain_id)
    IN  Merge(make_sequence_features(input_sequence, description, Len(input_sequence)),
              [all_atom_positions |-> coords.all_atom_positions,
               all_atom_mask |-> coords.all_atom_mask,
               resolution |-> NpArray("float32", 1, <<mmcif_object.header.resolution>>),
               release_date |-> NpArray("object", 1, <<mmcif_object.header.release_date>>)])

\* templates.TemplateHitFeaturizer.get_templates(...).features.  What keys the
\* featurizer returns is its own business: the variants differ in the keys
\* returned besides template_aatype.
TemplateVariants == {"own keys", "also msa", "also seq_length"}
TemplateFeatures(variant, query_sequence, query_release_date, hits) ==
    LET own == [template_aatype |->
                   NpArray("float32", 2, <<<<Len(query_sequence), Len(hits)>>>>)]
    IN  CASE variant = "own keys" -> own
          [] variant = "also msa" ->
                Merge(own, [msa |-> NpArray("float32", 2, <<<<7>>>>)])
          [] variant = "also seq_length" ->
                Merge(own, [seq_length |-> NpArray("float32", 1, <<8>>),
                            num_alignments |-> NpArray("float32", 1, <<9>>)])

\* np.utils.to_date
to_date(s) == [date |-> s]

\* parsers.parse_fasta: a line is a header (starting a record) or residues
\* (appended to the record begun last).
RECURSIVE ParseFastaLines(_, _, _)
ParseFastaLines(lines, k, acc) ==
    IF k > Len(lines) THEN acc
    ELSE IF "header" \in DOMAIN lines[k] THEN
        ParseFastaLines(lines, k + 1,
            [seqs |-> Append(acc.seqs, <<>>), descs |-> Append(acc.descs, <<lines[k].header>>)])
    ELSE IF acc.seqs = <<>> THEN ParseFastaLines(lines, k + 1, acc)
    ELSE ParseFastaLines(lines, k + 1,
            [acc EXCEPT !.seqs[Len(acc.seqs)] = @ \o lines[k].residues])
parse_fasta(fasta_str) == ParseFastaLines(fasta_str, 1, [seqs |-> <<>>, descs |-> <<>>])

\* Events of one call, in order.
Opened(file) == [event |-> "open", file |-> file]
Did(what) == [event |-> what]
GotTemplates(query_sequence, query_release_date) ==
    [event |-> "get_templates", query_sequence |-> query_sequence,
     query_release_date |-> query_release_date]
OpenedAll(reads) == [k \in 1..Len(reads) |-> Opened(reads[k])]

Failed(type, msg, events) ==
    [status |-> "raise", type |-> type, msg |-> msg, events |-> events]

\* The arguments make_msa_features is called with.
MsaOrder(alignments) ==
    [msas |-> <<alignments.uniref90_msa, alignments.bfd_msa, alignments.mgnify_msa>>,
     deletion_matrices |-> <<alignments.uniref90_deletion_matrix,
                             alignments.bfd_deletion_matrix,
                             alignments.mgnify_deletion_matrix>>]

\* The record-count check of process_fasta: TRUE when the call goes on.
OneRecord(input_seqs) == Len(input_seqs) = 1

\* The returned dict of each entry point.
FastaMerge(sequence_features, msa_features, template_features) ==
    Merge(Merge(sequence_features, msa_features), template_features)
MmcifMerge(mmcif_feats, msa_features, template_features) ==
    Merge(Merge(mmcif_feats, template_features), msa_features)

\* The part the two entry points share after the query is known: load the
\* alignments, get the templates, build and merge the features.
\* q holds what the entry point did before: its events, the query sequence,
\* release date and features, and the events between get_templates and
\* make_msa_features.
Finish(q, files, use_small_bfd, variant) ==
    LET entry == q.entry
        input_sequence == q.input_sequence
        query_release_date == q.query_release_date
        query_features == q.query_features
        made_after_templates == q.made_after_templates
        load == ParseAlignmentOutput(files, use_small_bfd)
        events1 == q.events \o OpenedAll(load.reads)
    IN  IF load.outcome.status = "raise" THEN
            Failed(load.outcome.type, load.outcome.msg, events1)
        ELSE
        LET alignments == load.outcome.alignments
            template_features ==
                TemplateFeatures(variant, input_sequence, query_release_date,
                                 alignments.hhsearch_hits)
            events2 == events1
                       \o <<GotTemplates(input_sequence, query_release_date)>>
                       \o made_after_templates
            args == MsaOrder(alignments)
            msa == make_msa_features(args.msas, args.deletion_matrices)
            events3 == events2 \o <<Did("make_msa_features")>>
        IN  IF msa.status = "raise" THEN Failed(msa.type, msa.msg, events3)
            ELSE
            [status |-> "return",
             features |-> IF entry = "fasta"
                          THEN FastaMerge(query_features, msa.features, template_features)
                          ELSE MmcifMerge(query_features, msa.features, template_features),
             query_features |-> query_features,
             msa_features |-> msa.features,
             template_features |-> template_features,
             msa_args |-> args,
             events |-> events3]

\* process_fasta(fasta_path, alignment_dir) on a file holding fasta_str.
ProcessFastaRun(fasta_str, files, use_small_bfd, variant) ==
    LET parsed == parse_fasta(fasta_str)
        events == <<Opened(FastaPath), Did("parse_fasta")>>
    IN  IF ~OneRecord(parsed.seqs) THEN
            Failed("ValueError", <<"More than one input sequence found">>, events)
        ELSE
        LET input_sequence == parsed.seqs[1]
            input_description == parsed.descs[1]
            num_res == Len(input_sequence)
        IN  Finish([entry |-> "fasta", events |-> events,
                    input_sequence |-> input_sequence,
                    query_release_date |-> [date |-> None],
                    query_features |->
                        make_sequence_features(input_sequence, input_description, num_res),
                    made_after_templates |-> <<Did("make_sequence_features")>>],
                   files, use_small_bfd, variant)

\* The chain taken when chain_id is None.
FirstChainLast(chains) == chains[Len(chains)]
FirstChain(chains) == chains[1]

\* process_mmcif(mmcif, alignment_dir, chain_id).
ProcessMmcifRun(mmcif, chain_id, files, use_small_bfd, variant) ==
    LET consulted == chain_id = None
        events == IF consulted THEN <<Did("get_chains")>> ELSE <<>>
    IN  IF consulted /\ Len(mmcif.chains) = 0 THEN
            Failed("ValueError", <<"No chains in mmCIF file">>, events)
        ELSE
        LET chosen == IF consulted THEN FirstChain(mmcif.chains) ELSE chain_id
            events1 == events \o <<[event |-> "make_mmcif_features", chain_id |-> chosen]>>
        IN  IF ~MmcifFeaturesOk(mmcif, chosen) THEN
                Failed("KeyError", <<"chain_to_seqres">>, events1)
            ELSE
            [chain_id |-> chosen] @@
            Finish([entry |-> "mmcif", events |-> events1,
                    input_sequence |-> mmcif.chain_to_seqres[chosen],
                    query_release_date |-> to_date(mmcif.header.release_date),
                    query_features |-> make_mmcif_features(mmcif, chosen),
                    made_after_templates |-> <<>>],
                   files, use_small_bfd, variant)

----------------------------------------------------------------------------
(* Specification of the two entry points                                   *)

\* Directories a run leaves behind: nothing, a run that failed at its last
\* stage, a complete small-bfd run, and that followed by a complete run of
\* the other branch.
PartialDir ==
    [f \in FileNames |->
        CASE f = "uniref90_hits.a3m" -> A3mFile(convert_stockholm_to_a3m(Sto1, uniref_max_hits))
          [] f = "mgnify_hits.a3m" -> A3mFile(convert_stockholm_to_a3m(Sto2, mgnify_max_hits))
          [] f = "pdb70_hits.hhr" ->
                HhrFor(HhsearchInput(convert_stockholm_to_a3m(Sto1, uniref_max_hits)))
          [] OTHER -> Absent]
SmallDir == [PartialDir EXCEPT !["small_bfd_hits.sto"] = StoFile(Sto2)]
BothDir == [SmallDir EXCEPT !["bfd_uniclust_hits.a3m"] =
                                A3mFile(A3m1)]
DirPool == {EmptyDir, PartialDir, SmallDir, BothDir}

\* Query files: no record, one record over two residue lines, two records.
FastaPool ==
    { <<>>,
      << [header |-> "query"], [residues |-> <<"A">>], [residues |-> <<"D">>] >>,
      << [header |-> "query"], [residues |-> <<"A", "D">>],
         [header |-> "other"], [residues |-> <<"C", "D">>] >> }

ChainSeqres == [c \in {"A", "B"} |-> IF c = "A" THEN <<"A", "D">> ELSE <<"C", "D">>]
Header == [resolution |-> 2, release_date |-> "2020-01-01"]
MmcifPool ==
    { [file_id |-> "1abc", chains |-> <<"A", "B">>, chain_to_seqres |-> ChainSeqres,
       header |-> Header],
      [file_id |-> "2xyz", chains |-> <<"B", "A">>, chain_to_seqres |-> ChainSeqres,
       header |-> Header],
      [file_id |-> "3nil", chains |-> <<>>, chain_to_seqres |-> <<>>,
       header |-> Header] }
ChainIds == {None, "A", "B", "Z"}

PipeInit ==
    /\ msas = <<>>
    /\ deletion_matrices = <<>>
    /\ seen_sequences = {}
    /\ msa_result = NotCalled
    /\ prev_call = NoCall
    /\ runner_use_small_bfd = FALSE
    /\ pipeline_use_small_bfd \in BOOLEAN
    /\ output_files \in DirPool
    /\ run_pc = "idle"
    /\ run_output_dir = None
    /\ uniref90_msa_as_a3m = <<>>
    /\ run_events = <<>>
    /\ run_error = NoError
    /\ started_empty = FALSE
    /\ load_result = NotCalled
    /\ load_reads = <<>>
    /\ load_before = output_files
    /\ fasta_result = NotCalled
    /\ mmcif_result = NotCalled

ProcessFasta(fasta_str, variant) ==
    /\ fasta_result' = [arg_fasta |-> fasta_str] @@
            ProcessFastaRun(fasta_str, output_files, pipeline_use_small_bfd, variant)
    /\ UNCHANGED <<mmcif_result, align_vars, msa_vars>>

ProcessMmcif(mmcif, chain_id, variant) ==
    /\ mmcif_result' = [arg_mmcif |-> mmcif, arg_chain_id |-> chain_id] @@
            ProcessMmcifRun(mmcif, chain_id, output_files, pipeline_use_small_bfd, variant)
    /\ UNCHANGED <<fasta_result, align_vars, msa_vars>>

PipeNext ==
    \/ \E f \in FastaPool, v \in TemplateVariants : ProcessFasta(f, v)
    \/ \E m \in MmcifPool, c \in ChainIds, v \in TemplateVariants : ProcessMmcif(m, c, v)

SpecPipe == PipeInit /\ [][PipeNext]_vars

----------------------------------------------------------------------------
(* Properties of the two entry points                                      *)

Sources(r) == <<r.query_features, r.msa_features, r.template_features>>
Orders == { o \in [1..3 -> 1..3] : \A a, b \in 1..3 : a # b => o[a] # o[b] }
LaterWins(a, b) ==
    [k \in DOMAIN a \cup DOMAIN b |-> IF k \in DOMAIN b THEN b[k] ELSE a[k]]
MergedIn(o, srcs) == LaterWins(LaterWins(srcs[o[1]], srcs[o[2]]), srcs[o[3]])
BothReturned == fasta_result.status = "return" /\ mmcif_result.status = "return"

\* C4: there is one order of the three sources (query, MSA, template) such
\* that each entry point returns the sources merged in that order, later
\* sources overwriting earlier ones; so the key set is the union and a key of
\* both the MSA and the template features resolves alike in both.
C4_SharedMergePolicy ==
    BothReturned =>
        \E o \in Orders :
            /\ fasta_result.features = MergedIn(o, Sources(fasta_result))
            /\ mmcif_result.features = MergedIn(o, Sources(mmcif_result))

RecordCount(fasta_str) ==
    Cardinality({ k \in 1..Len(fasta_str) : "header" \in DOMAIN fasta_str[k] })
IsMultiSequenceError(r) ==
    /\ r.status = "raise"
    /\ r.type = "ValueError"
    /\ r.msg = <<"More than one input sequence found">>
OnlyQueryRead(r) ==
    \A k \in 1..Len(r.events) :
        /\ r.events[k].event \in {"open", "parse_fasta"}
        /\ r.events[k].event = "open" => r.events[k].file = FastaPath

\* C8: process_fasta raises the more-than-one-sequence error exactly when the
\* query file holds more than one record, and then before any alignment file
\* is read, the template featurizer is called or features are built.
C8_MultiSequence ==
    (fasta_result # NotCalled) =>
        /\ IsMultiSequenceError(fasta_result) <=> RecordCount(fasta_result.arg_fasta) > 1
        /\ IsMultiSequenceError(fasta_result) => OnlyQueryRead(fasta_result)

EventsOf(r, what) == { k \in 1..Len(r.events) : r.events[k].event = what }

----------------------------------------------------------------------------
(* Specification of make_msa_features calls                                *)

\* The caller's next argument lists, given the previous ones.
Reverse(s) == [k \in 1..Len(s) |-> s[Len(s) + 1 - k]]
Front(s) == IF Len(s) = 0 THEN s ELSE SubSeq(s, 1, Len(s) - 1)
Rest(s) == IF Len(s) = 0 THEN s ELSE Tail(s)

MsaInit ==
    /\ \E shape \in Shapes : \E flat \in [1..TotalOf(shape) -> RowPool] :
          /\ msas = Split(flat, shape)
          /\ deletion_matrices = DeletionsOf(Split(flat, shape))
    /\ seen_sequences = {}
    /\ msa_result = NotCalled
    /\ prev_call = NoCall
    /\ runner_use_small_bfd = FALSE
    /\ pipeline_use_small_bfd = FALSE
    /\ AlignIdle

DoCall(m, dms) ==
    LET run == MakeMsaFeaturesRun(m, dms, seen_sequences) IN
    /\ msas' = m
    /\ deletion_matrices' = dms
    /\ seen_sequences' = run.seen
    /\ msa_result' = run.outcome
    /\ prev_call' = IF msa_result = NotCalled THEN NoCall
                    ELSE [msas |-> msas, deletion_matrices |-> deletion_matrices,
                          outcome |-> msa_result]
    /\ UNCHANGED <<align_vars, pipe_vars>>

CallSame == DoCall(msas, deletion_matrices)
CallReversed ==
    /\ Len(msas) > 1
    /\ DoCall(Reverse(msas), Reverse(deletion_matrices))

CallFront ==
    /\ Len(msas) > 0
    /\ DoCall(Front(msas), Front(deletion_matrices))
CallRest ==
    /\ Len(msas) > 0
    /\ DoCall(Rest(msas), Rest(deletion_matrices))

MsaNext == CallSame \/ CallReversed \/ CallFront \/ CallRest

SpecMsa == MsaInit /\ [][MsaNext]_vars

----------------------------------------------------------------------------
(* Properties of AlignmentRunner.run and _parse_alignment_output           *)

ThirdFile(use_small_bfd) ==
    IF use_small_bfd THEN "small_bfd_hits.sto" ELSE "bfd_uniclust_hits.a3m"
OtherThirdFile(use_small_bfd) == ThirdFile(~use_small_bfd)
ThirdTool(use_small_bfd) ==
    IF use_small_bfd THEN "jackhmmer_small_bfd" ELSE "hhblits_bfd_uniclust"

\* The content the current run wrote to a file (Absent if it wrote none).
Persisted(file) ==
    LET ws == { k \in 1..Len(run_events) :
                   run_events[k].kind = "write" /\ run_events[k].file = file }
    IN  IF ws = {} THEN Absent
        ELSE run_events[CHOOSE k \in ws : \A l \in ws : l <= k].content

LoadedAfterRun ==
    /\ run_pc = "done"
    /\ started_empty
    /\ load_result # NotCalled
    /\ load_before = output_files
    /\ pipeline_use_small_bfd = runner_use_small_bfd

\* C5: after a run that completed on an initially empty directory, a load
\* with the same flag finds every file and returns, per source, the parse of
\* the content the run persisted for it; the third source comes from
\* small_bfd_hits.sto on the small branch and bfd_uniclust_hits.a3m otherwise.
C5_RoundTrip ==
    LoadedAfterRun =>
        /\ load_result.status = "return"
        /\ LET al == load_result.alignments
               u == parse_a3m(Persisted("uniref90_hits.a3m").rows)
               m == parse_a3m(Persisted("mgnify_hits.a3m").rows)
               third == Persisted(ThirdFile(runner_use_small_bfd))
               b == IF runner_use_small_bfd THEN parse_stockholm(third.rows)
                    ELSE parse_a3m(third.rows)
           IN  /\ third # Absent
               /\ al.uniref90_msa = u.msa
               /\ al.uniref90_deletion_matrix = u.deletion_matrix
               /\ al.mgnify_msa = m.msa
               /\ al.mgnify_deletion_matrix = m.deletion_matrix
               /\ al.hhsearch_hits = parse_hhr(Persisted("pdb70_hits.hhr"))
               /\ al.bfd_msa = b.msa
               /\ al.bfd_deletion_matrix = b.deletion_matrix
               /\ load_reads[4] = ThirdFile(runner_use_small_bfd)

C5_Witness ==
    /\ LoadedAfterRun
    /\ runner_use_small_bfd
    /\ load_result.status = "return"
    /\ Len(load_result.alignments.uniref90_msa) = uniref_max_hits
    /\ load_result.alignments.uniref90_msa # load_result.alignments.mgnify_msa
    /\ \E r \in DOMAIN load_result.alignments.bfd_deletion_matrix :
          \E c \in DOMAIN load_result.alignments.bfd_deletion_matrix[r] :
             load_result.alignments.bfd_deletion_matrix[r][c] > 0

StageOrder(use_small_bfd) ==
    <<"jackhmmer_uniref90", "uniref90_hits.a3m",
      "jackhmmer_mgnify", "mgnify_hits.a3m",
      "hhsearch_pdb70", "pdb70_hits.hhr",
      ThirdTool(use_small_bfd), ThirdFile(use_small_bfd)>>

EventName(e) == IF e.kind = "query" THEN e.tool ELSE e.file
FilesPresent == { f \in FileNames : output_files[f] # Absent }
FilesWritten == { run_events[k].file :
                    k \in { l \in 1..Len(run_events) : run_events[l].kind = "write" } }

\* C6: the run's tool queries and file writes follow the fixed order, each
\* stage's write coming before the next stage's query; the template search is
\* queried with the converted uniref90 alignment, not the query file; a run
\* ended by a failing tool has an error, its last event is that tool's query,
\* and, from an empty directory, the files present are exactly the ones the
\* run wrote.
C6_StageOrder ==
    /\ Len(run_events) <= 8
    /\ \A k \in 1..Len(run_events) :
          /\ EventName(run_events[k]) = StageOrder(runner_use_small_bfd)[k]
          /\ (run_events[k].kind = "query") = (k % 2 = 1)
    /\ \A k \in 1..Len(run_events) :
          (run_events[k].kind = "query" /\ run_events[k].tool = "hhsearch_pdb70")
             => /\ run_events[k].input = [a3m |-> Persisted("uniref90_hits.a3m").rows]
                /\ run_events[k].input # QueryPath
    /\ (run_pc = "failed") =>
          /\ run_error # NoError
          /\ run_events # <<>>
          /\ run_events[Len(run_events)].kind = "query"
    /\ (run_pc = "done") => (run_error = NoError /\ Len(run_events) = 8)
    /\ started_empty => FilesPresent = FilesWritten

C6_Witness ==
    /\ run_pc = "failed"
    /\ started_empty
    /\ run_error.type = "RuntimeError"
    /\ Len(run_events) = 5
    /\ run_events[5].tool = "hhsearch_pdb70"
    /\ FilesPresent = {"uniref90_hits.a3m", "mgnify_hits.a3m"}

LoadMissing(outcome) == outcome.status = "raise" /\ outcome.type = "FileNotFoundError"
RequiredFiles(use_small_bfd) ==
    {"uniref90_hits.a3m", "mgnify_hits.a3m", "pdb70_hits.hhr", ThirdFile(use_small_bfd)}

\* C7: a load fails with the missing-file error exactly when one of the four
\* files of its branch is absent; it does not open the other branch's file,
\* queries no tool and leaves the directory as it was.
C7_PureReader ==
    [][Load =>
        /\ LoadMissing(load_result') <=>
              (\E f \in RequiredFiles(pipeline_use_small_bfd) : output_files[f] = Absent)
        /\ load_result'.status \in {"return", "raise"}
        /\ (load_result'.status = "raise") => LoadMissing(load_result')
        /\ \A k \in 1..Len(load_reads') :
              load_reads'[k] \in RequiredFiles(pipeline_use_small_bfd)
        /\ output_files' = output_files
        /\ run_events' = run_events]_vars

\* A load that fails although the other branch's file is there, and a load
\* that succeeds although the other branch's file is not.
C7_Witness ==
    /\ load_result # NotCalled
    /\ load_before = output_files
    /\ LoadMissing(load_result)
    /\ output_files[OtherThirdFile(pipeline_use_small_bfd)] # Absent
    /\ output_files[ThirdFile(pipeline_use_small_bfd)] = Absent
    /\ ~pipeline_use_small_bfd
    /\ Len(load_reads) = 4

----------------------------------------------------------------------------
(* Properties of make_msa_features                                         *)

RECURSIVE Flatten(_)
Flatten(s) == IF s = <<>> THEN <<>> ELSE Head(s) \o Flatten(Tail(s))

\* All (msa index, row index) pairs in iteration order.
AllPositions(m) == Flatten([i \in 1..Len(m) |-> [j \in 1..Len(m[i]) |-> <<i, j>>]])
Earlier(p, q) == p[1] < q[1] \/ (p[1] = q[1] /\ p[2] < q[2])
FirstOccurrence(m, p) ==
    \A i \in 1..Len(m) : \A j \in 1..Len(m[i]) :
        Earlier(<<i, j>>, p) => m[i][j] # m[p[1]][p[2]]
SurvivingPositions(m) == SelectSeq(AllPositions(m), LAMBDA p : FirstOccurrence(m, p))

AllStrings(m) == UNION { { m[i][j] : j \in 1..Len(m[i]) } : i \in 1..Len(m) }
AllMapped(m) == \A s \in AllStrings(m) : EncodeOk(s)
OneWidth(m) == \A s, t \in AllStrings(m) : Len(s) = Len(t)
HasEmptyMsa(m) == \E i \in 1..Len(m) : Len(m[i]) = 0
ValidMsaInput(m) == Len(m) > 0 /\ ~HasEmptyMsa(m) /\ AllMapped(m)
Called == msa_result # NotCalled
Returned == msa_result.status = "return"
TotalRows(m) == Len(AllPositions(m))
MsaRows == msa_result.features.msa.value
DeletionRows == msa_result.features.deletion_matrix_int.value
NumAlignments == msa_result.features.num_alignments.value
SameWidthWithin(m) ==
    \A i \in 1..Len(m) : \A j, k \in 1..Len(m[i]) : Len(m[i][j]) = Len(m[i][k])

CountsAgree ==
    /\ Returned
    /\ Len(MsaRows) = Cardinality(AllStrings(msas))
    /\ Len(DeletionRows) = Len(MsaRows)
    /\ \A k \in DOMAIN NumAlignments :
          NumAlignments[k] = Len(MsaRows)

C2_FirstOccurrenceWins ==
    Returned =>
        LET keep == SurvivingPositions(msas) IN
        /\ MsaRows =
              [k \in 1..Len(keep) |-> Encode(msas[keep[k][1]][keep[k][2]])]
        /\ DeletionRows =
              [k \in 1..Len(keep) |-> deletion_matrices[keep[k][1]][keep[k][2]]]

\* (A, B) then (B, A) with A = [s1, s2], B = [s2, s3], where the two copies of
\* s2 carry different deletion rows.
C2_Witness ==
    /\ Returned
    /\ prev_call # NoCall
    /\ prev_call.outcome.status = "return"
    /\ Len(msas) = 2
    /\ prev_call.msas = Reverse(msas)
    /\ Len(msas[1]) = 2 /\ Len(msas[2]) = 2
    /\ msas[2][2] = msas[1][1]
    /\ deletion_matrices[2][2] # deletion_matrices[1][1]
    /\ Len(MsaRows) = 3
    /\ DeletionRows[1] = deletion_matrices[1][1]
    /\ prev_call.outcome.features.deletion_matrix_int.value[2] = deletion_matrices[2][2]

IsEmptyInputError(outcome) ==
    /\ outcome.status = "raise"
    /\ outcome.type = "ValueError"
    /\ outcome.msg[1] \in {"At least one MSA must be provided",
                           "MSA must contain at least one sequence"}

FirstEmptyMsa(m) == CHOOSE i \in 1..Len(m) :
    Len(m[i]) = 0 /\ \A k \in 1..(i - 1) : Len(m[k]) # 0

NamesEmptyMsa(outcome, m) ==
    IF Len(m) = 0 THEN outcome.msg[1] = "At least one MSA must be provided"
    ELSE /\ outcome.msg[1] = "MSA must contain at least one sequence"
         /\ outcome.msg[2] + 1 \in 1..Len(m)
         /\ Len(m[outcome.msg[2] + 1]) = 0

\* C3 as stated: with an empty list or any empty MSA the call fails with the
\* empty-input error (naming an empty MSA's position), whatever the other
\* MSAs contain.
C3_Original ==
    (Called /\ (Len(msas) = 0 \/ HasEmptyMsa(msas))) =>
        (IsEmptyInputError(msa_result) /\ NamesEmptyMsa(msa_result, msas))

UnmappedBefore(m, i) ==
    \E k \in 1..(i - 1) : \E j \in 1..Len(m[k]) : ~EncodeOk(m[k][j])

\* C3 amended: with an empty list or any empty MSA the call always fails and
\* returns nothing; the failure is the empty-input error, naming the first
\* empty MSA's position, unless an MSA before the first empty one holds a row
\* with a symbol outside the mapping, and then it is the KeyError of that row.
C3_EmptyInput ==
    (Called /\ (Len(msas) = 0 \/ HasEmptyMsa(msas))) =>
        /\ msa_result.status = "raise"
        /\ IF Len(msas) = 0 THEN
              IsEmptyInputError(msa_result) /\ NamesEmptyMsa(msa_result, msas)
           ELSE IF UnmappedBefore(msas, FirstEmptyMsa(msas)) THEN
              msa_result.type = "KeyError"
           ELSE
              /\ IsEmptyInputError(msa_result)
              /\ msa_result.msg = <<"MSA must contain at least one sequence",
                                    FirstEmptyMsa(msas) - 1>>

C3_Witness ==
    /\ Called
    /\ Len(msas) = 2
    /\ Len(msas[1]) = 2 /\ Len(msas[2]) = 0
    /\ IsEmptyInputError(msa_result)
    /\ msa_result.msg[2] = 1

\* C10: a call's outcome depends only on its own arguments: a call with the
\* arguments of the call before it has the same outcome, and a returned msa
\* holds every distinct string of the call's own arguments, whatever the
\* earlier call kept or saw.
C10_CallsIndependent ==
    /\ (prev_call # NoCall /\ prev_call.msas = msas
            /\ prev_call.deletion_matrices = deletion_matrices)
          => prev_call.outcome = msa_result
    /\ (prev_call # NoCall /\ Returned)
          => Len(MsaRows) = Cardinality(AllStrings(msas))

C10_Witness ==
    /\ prev_call # NoCall
    /\ prev_call.msas = msas
    /\ prev_call.deletion_matrices = deletion_matrices
    /\ Returned
    /\ Len(MsaRows) > 1
    /\ seen_sequences # {}

====
